---- MODULE Spec2Model ----
(***************************************************************************)
(* State-machine model of the Copilot proxy's credential manager           *)
(* (services/auth-service.ts) and of the OpenAI-compatible completion      *)
(* route with its streaming bridge (routes/openai.ts, services/            *)
(* copilot-service.ts).                                                    *)
(*                                                                         *)
(* An action is one run-to-completion segment of JavaScript: the code      *)
(* between two awaits, or one callback invocation.  The identity provider, *)
(* the token endpoint, the completion backend and the wall clock are the   *)
(* environment; their answers are drawn from small sets.                   *)
(*                                                                         *)
(* The streaming connection is driven by fetchEventSource.  Its contract   *)
(* as used here: it issues the fetch, awaits onopen(response), feeds each  *)
(* server-sent event to onmessage, and calls onclose when the body ends;   *)
(* a rejected fetch, an exception thrown by onopen and a broken body all   *)
(* go to onerror, and when onerror returns without throwing the request is *)
(* issued again with the same headers after the retry interval.            *)
(***************************************************************************)
EXTENDS Integers, Sequences, FiniteSets, TLC

\* ------------------------------------------------------------------ bounds
MaxNow == 1          \* the clock runs over 0..MaxNow (seconds)
MaxLife == 1         \* a credential issued at t expires at t + SkewSeconds + (0..MaxLife)
MaxEvents == 2       \* backend events delivered to onmessage during one call
MaxAttempts == 2     \* backend connections per call the model follows
MaxMsgs == 2         \* messages in an inbound message list
MaxBlocks == 3       \* content blocks in one message content
MaxChoices == 2      \* choices in one backend result
MaxCalls == 2        \* applications of convertCopilotToAnthropicResponse to one result
MaxEdits == 2        \* fields in which a request body differs from the valid request
MaxStops == 5        \* entries in a stop_sequences array

\* ------------------------------------------------------- program constants
SkewSeconds == 60
MaxStopSequences == 4
MaxToolName == 64

\* ------------------------------------------------------------ value spaces
Null == [null |-> TRUE]
NoGithubToken == "null"
GithubTokens == {"gho_A"}
CopilotTokenValues == {"", "tid_1", "tid_2"}
Verification == [user_code |-> "WDJB-MJHT", status |-> "pending_verification"]

VARIABLES
    githubToken,          \* auth-service.ts: let githubToken
    copilotToken,         \* auth-service.ts: let copilotToken
    pendingVerification,  \* auth-service.ts: let pendingVerification
    now,                  \* Math.floor(Date.now() / 1000)
    flowPc,               \* initiateDeviceFlow: position of the invocation
    flowPromise,          \* initiateDeviceFlow: state of the returned promise
    pollPc,               \* checkDeviceFlowAuth: position of the invocation
    pollResult,           \* checkDeviceFlowAuth: how the last invocation settled
    pollAnswer,           \* checkDeviceFlowAuth: what the awaited auth() of the last invocation gave
    refreshing,           \* owners of the refreshCopilotToken calls awaiting the endpoint
    directResult,         \* how the last direct refreshCopilotToken() call settled
    yields,               \* expires_at of the credentials the last two direct calls returned
    issued,               \* the body of the token endpoint's last 2xx answer since the store was cleared
    preClear,             \* the operations still in flight that were started before the last clearTokens()
    callPc,               \* the inbound /chat/completions call: position
    callStream,           \* request.stream
    callBody,             \* shape of request.messages
    callErr,              \* error code handed to next(error), "none" if none
    bearer,               \* token placed in the Authorization header of the call
    attempts,             \* backend requests issued for the call
    firstOpen,            \* how the first streaming connection opened
    recv,                 \* backend events delivered to onmessage, in order
    res,                  \* the outbound channel (express.Response) of the call
    clientGone,           \* the inbound caller has disconnected
    startedStale,         \* the call arrived while isTokenValid() was false with an identity token held
    mwRefreshed,          \* requireAuth awaited refreshCopilotToken() for the call
    messages,             \* the inbound message list handed to a normalizer
    systemPrompt,         \* the system prompt handed to the Anthropic normalizer ("" if none)
    normalizer,           \* which normalizer produced prompt
    prompt,               \* the prompt string the normalizer returned ("" before it ran)
    content,              \* the message content handed to extractTextContent
    extracted,            \* <<s>> once extractTextContent returned s, <<>> before
    backendResult,        \* the Copilot response handed to convertCopilotToAnthropicResponse
    outbound,             \* the messages convertCopilotToAnthropicResponse returned, in call order
    uuids,                \* number of uuidv4() values drawn so far
    requestBody,          \* the request body handed to anthropicMessageRequestSchema
    verdict,              \* "accepted" / "rejected" once the schema parsed it, "none" before
    modelIn,              \* the model name handed to mapClaudeModelToCopilot
    modelOut              \* <<m>> once mapClaudeModelToCopilot returned m, <<>> before

authVars == <<githubToken, copilotToken, pendingVerification>>
flowVars == <<flowPc, flowPromise>>
pollVars == <<pollPc, pollResult, pollAnswer>>
directVars == <<directResult, yields>>
callVars == <<callPc, callStream, callBody, callErr, bearer, attempts, firstOpen,
              recv, res, clientGone, startedStale, mwRefreshed>>
textVars == <<messages, systemPrompt, normalizer, prompt, content, extracted>>
synthVars == <<backendResult, outbound, uuids>>
schemaVars == <<requestBody, verdict>>
mapperVars == <<modelIn, modelOut>>
pureVars == <<synthVars, schemaVars, mapperVars>>
vars == <<authVars, now, flowVars, pollVars, refreshing, directVars, issued, preClear, callVars, textVars,
          pureVars>>

\* --------------------------------------------------------- auth-service.ts
getCopilotToken == copilotToken

\* Mutant of CredValidAt: the expiry is compared without the 60 s buffer.
CredValidAt_NoSkew(cred, t) ==
    IF cred = Null \/ cred.token = ""
    THEN FALSE
    ELSE t < cred.expires_at

\* isTokenValid() for a stored value cred, read at clock value t.
CredValidAt(cred, t) ==
    IF cred = Null \/ cred.token = ""
    THEN FALSE
    ELSE t < cred.expires_at - SkewSeconds

isTokenValidAt(t) == CredValidAt(copilotToken, t)

isTokenValid == isTokenValidAt(now)

\* Credentials the token endpoint may answer with at the present time.
IssuedTokens ==
    [token : CopilotTokenValues,
     expires_at : {now + SkewSeconds + d : d \in 0..MaxLife}]

\* The express.Response of a call before anything is written: out is what was
\* written to the channel, ended counts res.end() calls, late counts the
\* res.write() calls made after res.end(), which the channel drops.
NewResponse == [out |-> <<>>, ended |-> 0, late |-> 0, headersSent |-> FALSE]

\* Mutant of resWrite: the event is put in front of what was written.
resWrite_Prepends(r, ev) ==
    IF r.ended > 0
    THEN [r EXCEPT !.late = @ + 1]
    ELSE [r EXCEPT !.out = <<ev>> \o @, !.headersSent = TRUE]

\* res.write(ev)
resWrite(r, ev) ==
    IF r.ended > 0
    THEN [r EXCEPT !.late = @ + 1]
    ELSE [r EXCEPT !.out = Append(@, ev), !.headersSent = TRUE]

resEnd(r) == [r EXCEPT !.ended = @ + 1, !.headersSent = TRUE]

\* The message normalizers and extractTextContent have not been applied.
TextIdle ==
    /\ normalizer = "none"
    /\ prompt = ""
    /\ extracted = <<>>

\* convertCopilotToAnthropicResponse, the request schema and
\* mapClaudeModelToCopilot have not been applied.
PureIdle ==
    /\ outbound = <<>>
    /\ uuids = 0
    /\ verdict = "none"
    /\ modelOut = <<>>

\* Inputs of those three before any is chosen.
PureUnset ==
    /\ backendResult = [id |-> "", choices |-> <<>>, usage |-> [present |-> FALSE]]
    /\ requestBody = [kind |-> "absent"]
    /\ modelIn = ""

\* The proxy after its modules are loaded.
InitProxy ==
    /\ githubToken = NoGithubToken
    /\ copilotToken = Null
    /\ pendingVerification = Null
    /\ now = 0
    /\ flowPc = "idle"
    /\ flowPromise = "none"
    /\ pollPc = "idle"
    /\ pollResult = "none"
    /\ pollAnswer = "none"
    /\ refreshing = {}
    /\ directResult = "none"
    /\ yields = <<>>
    /\ issued = Null
    /\ preClear = {}
    /\ callPc = "idle"
    /\ callStream = FALSE
    /\ callBody = "ok"
    /\ callErr = "none"
    /\ bearer = ""
    /\ attempts = 0
    /\ firstOpen = "none"
    /\ recv = <<>>
    /\ res = NewResponse
    /\ clientGone = FALSE
    /\ startedStale = FALSE
    /\ mwRefreshed = FALSE

Init ==
    /\ InitProxy
    /\ TextIdle
    /\ PureIdle
    /\ PureUnset
    /\ messages = <<>>
    /\ systemPrompt = ""
    /\ content = [kind |-> "string", text |-> ""]

\* Mutant of Tick: a timer of the manager drops the credential once it is no
\* longer valid.
Tick_DropsExpired ==
    /\ now < MaxNow
    /\ now' = now + 1
    /\ copilotToken' = IF CredValidAt(copilotToken, now + 1) THEN copilotToken ELSE Null
    /\ UNCHANGED <<githubToken, pendingVerification, flowVars, pollVars, refreshing,
                   directVars, issued, preClear, textVars, pureVars, callVars>>

\* The wall clock advances.
Tick ==
    /\ now < MaxNow
    /\ now' = now + 1
    /\ UNCHANGED <<authVars, flowVars, pollVars, refreshing, directVars, issued, preClear, textVars, pureVars, callVars>>

\* ------------------------------------------------------- routes/openai.ts
\* next(error): the call leaves the route with an error for the error handler.
Rejected(code) ==
    /\ callPc' = "rejected"
    /\ callErr' = code
    /\ UNCHANGED <<bearer, attempts>>

\* The route handler after requireAuth called next(), up to its first await:
\* the body checks, getCopilotToken(), then either makeCompletionRequest up to
\* its fetch or handleStreamingCompletion up to the fetch fetchEventSource
\* issues.  cred is the stored credential when it runs.
\* A message list that convertMessagesToCopilotPrompt cannot walk makes it
\* throw before anything is sent; both paths hand the exception to next().
chatCompletions(cred) ==
    IF callBody' = "no_messages" THEN Rejected("invalid_request")
    ELSE IF cred = Null THEN Rejected("authentication_required")
    ELSE IF callStream' /\ cred.token = "" THEN Rejected("authentication_required")
    ELSE IF callBody' = "bad_message" THEN Rejected("internal_error")
    ELSE /\ callPc' = IF callStream' THEN "connecting" ELSE "nsAwait"
         /\ callErr' = "none"
         /\ bearer' = cred.token
         /\ attempts' = 1

\* requireAuth for a newly arrived request.  isTokenValid() is called twice
\* and reads the clock each time; d is what the clock gained in between.
requireAuth(stream, body, d) ==
    /\ callPc = "idle"
    /\ now + d <= MaxNow
    /\ callStream' = stream
    /\ callBody' = body
    /\ startedStale' = (~isTokenValid /\ githubToken # NoGithubToken)
    /\ UNCHANGED <<authVars, flowVars, pollVars, directVars, issued, preClear, textVars, pureVars,
                   firstOpen, recv, res, clientGone>>
    /\ IF ~isTokenValid
       THEN /\ d = 0
            /\ Rejected("authentication_required")
            /\ UNCHANGED <<now, refreshing, mwRefreshed>>
       ELSE /\ now' = now + d
            /\ IF getCopilotToken # Null /\ ~isTokenValidAt(now + d)
               THEN IF githubToken = NoGithubToken
                    THEN /\ Rejected("authentication_failed")
                         /\ UNCHANGED <<refreshing, mwRefreshed>>
                    ELSE /\ refreshing' = refreshing \cup {"mw"}
                         /\ mwRefreshed' = TRUE
                         /\ callPc' = "mwRefresh"
                         /\ UNCHANGED <<callErr, bearer, attempts>>
               ELSE /\ chatCompletions(copilotToken)
                    /\ UNCHANGED <<refreshing, mwRefreshed>>

RequestArrives ==
    \E stream \in BOOLEAN, body \in {"ok", "no_messages", "bad_message"}, d \in {0, 1} :
        requireAuth(stream, body, d)

\* --------------------------------------------------------- auth-service.ts
\* The operations of auth-service.ts that are awaiting something: the
\* refreshCopilotToken() calls by owner, "flowAuth" for the auth() call of
\* initiateDeviceFlow, "pollAuth" for that of checkDeviceFlowAuth.
InFlight ==
    refreshing
        \cup (IF flowPc \in {"started", "polling"} THEN {"flowAuth"} ELSE {})
        \cup (IF pollPc = "awaitAuth" THEN {"pollAuth"} ELSE {})

\* pre after the operation `op` in it settled, going on with the refresh
\* `next` if goesOn.
Continued(pre, op, next, goesOn) ==
    IF op \in pre
    THEN (pre \ {op}) \cup (IF goesOn THEN {next} ELSE {})
    ELSE pre

\* initiateDeviceFlow(): the promise is created and auth({type: "oauth"}) started.
initiateDeviceFlow ==
    /\ flowPc \in {"idle", "done"}
    /\ "flow" \notin refreshing
    /\ flowPc' = "started"
    /\ flowPromise' = "pending"
    /\ UNCHANGED <<authVars, now, pollVars, refreshing, directVars, issued, preClear, textVars, pureVars, callVars>>

\* The provider's challenge arrives: onVerification stores and resolves.
onVerification ==
    /\ flowPc = "started"
    /\ pendingVerification' = Verification
    /\ flowPromise' = IF flowPromise = "pending" THEN "resolved" ELSE flowPromise
    /\ flowPc' = "polling"
    /\ UNCHANGED <<githubToken, copilotToken, now, pollVars, refreshing, directVars, issued, preClear, textVars, pureVars, callVars>>

\* auth({type: "oauth"}) of the flow resolves: with a token the token is stored
\* and refreshCopilotToken() is started without being awaited.
flowAuthResolved(tok) ==
    /\ flowPc = "polling"
    /\ flowPc' = "done"
    /\ IF tok # ""
       THEN /\ githubToken' = tok
            /\ refreshing' = refreshing \cup {"flow"}
       ELSE UNCHANGED <<githubToken, refreshing>>
    /\ preClear' = Continued(preClear, "flowAuth", "flow", tok # "")
    /\ UNCHANGED <<copilotToken, pendingVerification, now, flowPromise, pollVars,
                   directVars, issued, textVars, pureVars, callVars>>

FlowAuthorized == \E tok \in GithubTokens \cup {""} : flowAuthResolved(tok)

\* auth({type: "oauth"}) of the flow rejects: the promise is rejected only if no
\* verification has been stored.
flowAuthRejected ==
    /\ flowPc \in {"started", "polling"}
    /\ flowPc' = "done"
    /\ flowPromise' = IF pendingVerification = Null /\ flowPromise = "pending"
                      THEN "rejected" ELSE flowPromise
    /\ preClear' = preClear \ {"flowAuth"}
    /\ UNCHANGED <<authVars, now, pollVars, refreshing, directVars, issued, textVars, pureVars, callVars>>

\* Mutant of checkDeviceFlowAuth: the provider is asked although no
\* verification is pending.
checkDeviceFlowAuth_AlwaysAsks ==
    /\ pollPc = "idle"
    /\ pollAnswer' = "none"
    /\ IF githubToken # NoGithubToken /\ copilotToken # Null
       THEN pollPc' = "idle" /\ pollResult' = "true"
       ELSE pollPc' = "awaitAuth" /\ pollResult' = "none"
    /\ UNCHANGED <<authVars, now, flowVars, refreshing, directVars, issued, preClear, textVars, pureVars, callVars>>

\* What checkDeviceFlowAuth() returns before it would ask the provider, "none"
\* when it goes on to ask.
checkDeviceFlowAuthEarly ==
    IF githubToken # NoGithubToken /\ copilotToken # Null THEN "true"
    ELSE IF pendingVerification = Null THEN "false"
    ELSE "none"

\* checkDeviceFlowAuth() up to its first await.
checkDeviceFlowAuth ==
    /\ pollPc = "idle"
    /\ pollAnswer' = "none"
    /\ pollResult' = checkDeviceFlowAuthEarly
    /\ pollPc' = IF checkDeviceFlowAuthEarly = "none" THEN "awaitAuth" ELSE "idle"
    /\ UNCHANGED <<authVars, now, flowVars, refreshing, directVars, issued, preClear, textVars, pureVars, callVars>>

\* The provider's answers to the auth({type: "oauth"}) awaited by
\* checkDeviceFlowAuth: a token (possibly empty), or an error named by its
\* message.
ProviderAnswers == {"token", "authorization_pending", "access_denied", "expired_token"}

\* What checkDeviceFlowAuth does with a provider answer that is not a usable
\* token: "false" is returned, "threw" is an exception for the caller.
\* Mutant: every provider error is reported as false.
pollOutcome_SwallowsAll(answer) == "false"

pollOutcome(answer) ==
    CASE answer = "token" -> "false"
      [] answer = "authorization_pending" -> "false"
      [] OTHER -> "threw"

\* checkDeviceFlowAuth(): the awaited auth({type: "oauth"}) settles.
checkAuthSettled(answer, tok) ==
    /\ pollPc = "awaitAuth"
    /\ pollAnswer' = IF answer = "token" /\ tok = "" THEN "empty_token" ELSE answer
    /\ IF answer = "token" /\ tok # ""
       THEN /\ githubToken' = tok
            /\ refreshing' = refreshing \cup {"poll"}
            /\ pollPc' = "awaitRefresh"
            /\ pollResult' = "none"
       ELSE /\ pollPc' = "idle"
            /\ pollResult' = pollOutcome(answer)
            /\ UNCHANGED <<githubToken, refreshing>>
    /\ preClear' = Continued(preClear, "pollAuth", "poll", answer = "token" /\ tok # "")
    /\ UNCHANGED <<copilotToken, pendingVerification, now, flowVars, directVars, issued, textVars, pureVars, callVars>>

PollAnswered ==
    \E answer \in ProviderAnswers,
       tok \in GithubTokens \cup {""} :
        checkAuthSettled(answer, tok)

\* Mutant of refreshCopilotToken: the stored credential is dropped before the
\* token endpoint is asked.
refreshCopilotToken_ClearsFirst ==
    /\ "direct" \notin refreshing
    /\ IF githubToken = NoGithubToken
       THEN directResult' = "no_identity_token" /\ UNCHANGED <<refreshing, copilotToken>>
       ELSE /\ directResult' = "none"
            /\ refreshing' = refreshing \cup {"direct"}
            /\ copilotToken' = Null
    /\ UNCHANGED <<yields, issued, preClear, githubToken, pendingVerification, now, flowVars, pollVars, callVars, textVars, pureVars>>

\* refreshCopilotToken() called by an outside caller, up to its await.
refreshCopilotToken ==
    /\ "direct" \notin refreshing
    /\ IF githubToken = NoGithubToken
       THEN directResult' = "no_identity_token" /\ UNCHANGED refreshing
       ELSE directResult' = "none" /\ refreshing' = refreshing \cup {"direct"}
    /\ UNCHANGED <<yields, issued, preClear, textVars, pureVars>>
    /\ UNCHANGED <<authVars, now, flowVars, pollVars, callVars>>

\* Mutant of exchanged: a failed exchange drops the stored credential.
exchanged_DropsOnFailure(prev, ok, cred) == IF ok THEN cred ELSE Null

\* Mutant of exchanged: the credential is only stored over an older one.
exchanged_KeepsFirst(prev, ok, cred) == IF ok /\ prev = Null THEN cred ELSE prev

\* Mutant of exchanged: the fields of the answer are copied into the stored
\* object one await apart, and the second copy has not happened yet.
exchanged_FieldByField(prev, ok, cred) ==
    IF ~ok THEN prev
    ELSE IF prev = Null THEN cred
    ELSE [token |-> cred.token, expires_at |-> prev.expires_at]

\* The value of copilotToken after the token endpoint answered: the body of a
\* 2xx answer is assigned, otherwise the throw leaves the variable as it was.
exchanged(prev, ok, cred) == IF ok THEN cred ELSE prev

\* Mutant of pollRefreshOutcome: a failed exchange is reported as false.
pollRefreshOutcome_Swallows(ok) == IF ok THEN "true" ELSE "false"

\* How checkDeviceFlowAuth settles once its awaited refreshCopilotToken()
\* returned (true) or threw: the error's message does not contain
\* 'authorization_pending', so the catch throws it again.
pollRefreshOutcome(ok) == IF ok THEN "true" ELSE "threw"

\* The last two of the values in s followed by v.
LastTwo(s, v) == IF s = <<>> THEN <<v>> ELSE <<s[Len(s)], v>>

\* The token endpoint answers a refreshCopilotToken() call: a 2xx answer is
\* stored, anything else is thrown to the caller `owner` awaiting it.
refreshSettled(owner, ok, cred) ==
    /\ owner \in refreshing
    /\ refreshing' = refreshing \ {owner}
    /\ copilotToken' = exchanged(copilotToken, ok, cred)
    /\ issued' = IF ok THEN cred ELSE issued
    /\ preClear' = preClear \ {owner}
    /\ UNCHANGED <<githubToken, pendingVerification, now, flowVars, textVars, pureVars>>
    /\ IF owner = "poll"
       THEN /\ pollPc' = "idle"
            /\ pollResult' = pollRefreshOutcome(ok)
            /\ UNCHANGED pollAnswer
       ELSE UNCHANGED pollVars
    /\ IF owner = "direct"
       THEN /\ directResult' = IF ok THEN "ok" ELSE "exchange_failed"
            /\ yields' = IF ok THEN LastTwo(yields, copilotToken'.expires_at) ELSE yields
       ELSE UNCHANGED directVars
    /\ IF owner = "mw"
       THEN /\ UNCHANGED <<callStream, callBody, firstOpen, recv, res, clientGone,
                           startedStale, mwRefreshed>>
            /\ IF ok
               THEN chatCompletions(cred)
               ELSE Rejected("authentication_failed")
       ELSE UNCHANGED callVars

TokenEndpointAnswers ==
    \E owner \in refreshing, ok \in BOOLEAN, cred \in IssuedTokens :
        refreshSettled(owner, ok, cred)

\* clearTokens()
clearTokens ==
    /\ githubToken' = NoGithubToken
    /\ copilotToken' = Null
    /\ issued' = Null
    /\ preClear' = InFlight
    /\ UNCHANGED <<pendingVerification, now, flowVars, pollVars, refreshing,
                   directVars, textVars, pureVars, callVars>>

\* ------------------------- routes/openai.ts: handleStreamingCompletion
BackendEvents == {"fragment", "malformed", "[DONE]"}

\* Mutant of onmessage: the terminal marker also ends the response.
onmessage_EndsOnDone(r, ev) ==
    CASE ev = "[DONE]" -> resEnd(resWrite(r, <<"done">>))
      [] ev = "fragment" -> resWrite(r, <<"chunk">>)
      [] OTHER -> resWrite(r, <<"error", "fragment">>)

\* Mutant of onmessage: a payload that cannot be parsed aborts the stream.
onmessage_AbortsOnParseError(r, ev) ==
    CASE ev = "[DONE]" -> resWrite(r, <<"done">>)
      [] ev = "fragment" -> resWrite(r, <<"chunk">>)
      [] OTHER -> resEnd(resWrite(r, <<"error", "fragment">>))

\* Payloads followed with their content: msg.data as the backend sends it.
HiFragment == "{\"choices\":[{\"text\":\"Hi\",\"finish_reason\":null}]}"
StopFragment == "{\"choices\":[{\"text\":\"\",\"finish_reason\":\"stop\"}]}"
ParsedPayloads == {HiFragment, StopFragment}

\* JSON.parse(msg.data).choices[0] for those payloads.
JSONparse(data) ==
    CASE data = HiFragment -> [text |-> "Hi", finish_reason |-> "null"]
      [] data = StopFragment -> [text |-> "", finish_reason |-> "stop"]

\* x || null for a finish reason ("null" stands for null).
orNull(x) == IF x \in {"", "null"} THEN "null" ELSE x

\* The chat.completion.chunk written for a parsed payload: its delta content
\* and its finish_reason.
chunkOf(choice) == <<"chunk", choice.text, orNull(choice.finish_reason)>>

\* Mutant of onmessage: a parsed fragment is followed by the terminal marker.
onmessage_ClosesAfterFragment(r, ev) ==
    CASE ev = "[DONE]" -> resWrite(r, <<"done">>)
      [] ev = "fragment" -> resWrite(r, <<"chunk">>)
      [] ev \in ParsedPayloads ->
            resWrite(resWrite(r, chunkOf(JSONparse(ev))), <<"done">>)
      [] OTHER -> resWrite(r, <<"error", "fragment">>)

\* onmessage(msg): what it writes for one backend event.  "fragment" is a
\* payload JSON.parse accepts and that has choices[0], followed without its
\* content; "malformed" is any other payload (the exception is caught inside
\* onmessage).
onmessage(r, ev) ==
    CASE ev = "[DONE]" -> resWrite(r, <<"done">>)
      [] ev = "fragment" -> resWrite(r, <<"chunk">>)
      [] ev \in ParsedPayloads -> resWrite(r, chunkOf(JSONparse(ev)))
      [] OTHER -> resWrite(r, <<"error", "fragment">>)

\* Mutant of onerror: the error is written but the response is left open.
onerror_NoEnd(r, cause) == resWrite(r, <<"error", cause>>)

\* onerror(err): writes String(err) and ends the response; it returns without
\* throwing, so the connection is retried.  cause tells the errors apart:
\* "bad_status" (thrown by onopen), "network_error" (the fetch failed),
\* "broken_body" (the body broke while it was read).
onerror(r, cause) == resEnd(resWrite(r, <<"error", cause>>))

\* onclose()
onclose(r) == resEnd(r)

\* The backend answers the fetch of the streaming request.  A non-2xx answer
\* makes onopen throw; a failed fetch and a throwing onopen both reach onerror.
streamOpened(answer) ==
    /\ callPc = "connecting"
    /\ firstOpen' = IF attempts = 1 THEN answer ELSE firstOpen
    /\ IF answer = "ok"
       THEN callPc' = "open" /\ UNCHANGED res
       ELSE callPc' = "retryWait" /\ res' = onerror(res, answer)
    /\ UNCHANGED <<authVars, now, flowVars, pollVars, refreshing, directVars, issued, preClear, textVars, pureVars,
                   callStream, callBody, callErr, bearer, attempts, recv,
                   clientGone, startedStale, mwRefreshed>>

BackendAnswersOpen ==
    \E answer \in {"ok", "bad_status", "network_error"} : streamOpened(answer)

\* The backend sends one server-sent event on the open connection.
streamMessage(ev) ==
    /\ callPc = "open"
    /\ Len(recv) < MaxEvents
    /\ recv' = Append(recv, ev)
    /\ res' = onmessage(res, ev)
    /\ UNCHANGED <<authVars, now, flowVars, pollVars, refreshing, directVars, issued, preClear, textVars, pureVars,
                   callPc, callStream, callBody, callErr, bearer, attempts, firstOpen, clientGone, startedStale, mwRefreshed>>

BackendSendsEvent == \E ev \in BackendEvents : streamMessage(ev)

\* The same with a payload followed with its content.
BackendSendsPayload == \E ev \in ParsedPayloads : streamMessage(ev)

\* The backend ends the body: onclose runs and fetchEventSource resolves.
streamClosed ==
    /\ callPc = "open"
    /\ callPc' = "resolved"
    /\ res' = onclose(res)
    /\ UNCHANGED <<authVars, now, flowVars, pollVars, refreshing, directVars, issued, preClear, textVars, pureVars,
                   callStream, callBody, callErr, bearer, attempts, firstOpen,
                   recv, clientGone, startedStale, mwRefreshed>>

\* Mutant of streamBroken: the broken connection is abandoned silently.
streamBroken_Abandons ==
    /\ callPc = "open"
    /\ callPc' = "retryWait"
    /\ UNCHANGED <<authVars, now, flowVars, pollVars, refreshing, directVars, issued, preClear,
                   textVars, pureVars, callStream, callBody, callErr, bearer, attempts,
                   firstOpen, recv, res, clientGone, startedStale, mwRefreshed>>

\* The open connection breaks while the body is read.
streamBroken ==
    /\ callPc = "open"
    /\ callPc' = "retryWait"
    /\ res' = onerror(res, "broken_body")
    /\ UNCHANGED <<authVars, now, flowVars, pollVars, refreshing, directVars, issued, preClear, textVars, pureVars,
                   callStream, callBody, callErr, bearer, attempts, firstOpen,
                   recv, clientGone, startedStale, mwRefreshed>>

\* The retry timer fires: the request is issued again with the headers built
\* when the call started.
streamRetry ==
    /\ callPc = "retryWait"
    /\ attempts < MaxAttempts
    /\ callPc' = "connecting"
    /\ attempts' = attempts + 1
    /\ UNCHANGED <<authVars, now, flowVars, pollVars, refreshing, directVars, issued, preClear, textVars, pureVars,
                   callStream, callBody, callErr, bearer, firstOpen, recv, res,
                   clientGone, startedStale, mwRefreshed>>

\* The inbound caller goes away during a streaming call.  No listener is
\* registered for it, so nothing else of the call's state changes.
clientDisconnects ==
    /\ callPc \in {"connecting", "open", "retryWait"}
    /\ ~clientGone
    /\ clientGone' = TRUE
    /\ UNCHANGED <<authVars, now, flowVars, pollVars, refreshing, directVars, issued, preClear, textVars, pureVars,
                   callPc, callStream, callBody, callErr, bearer, attempts, firstOpen, recv, res, startedStale, mwRefreshed>>

\* ------------------ services/copilot-service.ts: makeCompletionRequest
\* The backend answers the non-streaming fetch: the data is returned and sent
\* with res.json, or the error is thrown to the route, which calls next(error).
completionSettled(answer) ==
    /\ callPc = "nsAwait"
    /\ IF answer = "ok"
       THEN callPc' = "answered" /\ UNCHANGED callErr
       ELSE callPc' = "rejected" /\ callErr' = "copilot_api_error"
    /\ UNCHANGED <<authVars, now, flowVars, pollVars, refreshing, directVars, issued, preClear, textVars, pureVars,
                   callStream, callBody, bearer, attempts, firstOpen, recv,
                   res, clientGone, startedStale, mwRefreshed>>

BackendAnswersCompletion ==
    \E answer \in {"ok", "bad_status", "network_error"} : completionSettled(answer)

\* ------------------------------- services/anthropic-service.ts: messages
\* A message content is a string, [kind |-> "string", text |-> s], an array
\* of content blocks, [kind |-> "blocks", blocks |-> <<...>>], or any other
\* value, [kind |-> "other"]; a text block is [type |-> "text", text |-> s],
\* every other block only has its type.
StringContent(t) == [kind |-> "string", text |-> t]
BlockContent(bs) == [kind |-> "blocks", blocks |-> bs]
OtherContent == [kind |-> "other"]
TextBlock(t) == [type |-> "text", text |-> t]
OtherBlock(ty) == [type |-> ty]

\* The sequences over S of length at most n.
SeqsUpTo(S, n) == UNION {[1..k -> S] : k \in 0..n}

\* Array.prototype.join: the strings of parts with sep between neighbours.
RECURSIVE Join(_, _)
Join(parts, sep) ==
    IF parts = <<>> THEN ""
    ELSE IF Len(parts) = 1 THEN parts[1]
    ELSE parts[1] \o sep \o Join(Tail(parts), sep)

\* content.filter(block => block.type === 'text')
RECURSIVE filterText(_)
filterText(bs) ==
    IF bs = <<>> THEN <<>>
    ELSE IF bs[1].type = "text" THEN <<bs[1]>> \o filterText(Tail(bs))
    ELSE filterText(Tail(bs))

\* Mutant of extractTextContent: the texts are joined without a separator.
extractTextContent_NoNewline(c) ==
    IF c.kind = "string" THEN c.text
    ELSE IF c.kind # "blocks" THEN ""
    ELSE LET kept == filterText(c.blocks)
         IN Join([i \in 1..Len(kept) |-> kept[i].text], "")

\* extractTextContent(content)
extractTextContent(c) ==
    IF c.kind = "string" THEN c.text
    ELSE IF c.kind # "blocks" THEN ""
    ELSE LET kept == filterText(c.blocks)
         IN Join([i \in 1..Len(kept) |-> kept[i].text], "\n")

\* Mutant of anthropicRole: the user's turns are named as the OpenAI
\* normalizer names them.
anthropicRole_UserPrefix(role) == IF role = "user" THEN "User" ELSE "Assistant"

\* const role = message.role === 'user' ? 'Human' : 'Assistant'
anthropicRole(role) == IF role = "user" THEN "Human" ELSE "Assistant"

\* The loop of convertAnthropicMessagesToCopilotPrompt over msgs.
RECURSIVE anthropicTurns(_)
anthropicTurns(msgs) ==
    IF msgs = <<>> THEN ""
    ELSE LET text == extractTextContent(msgs[1].content)
             turn == IF text # ""
                     THEN anthropicRole(msgs[1].role) \o ": " \o text \o "\n\n"
                     ELSE ""
         IN turn \o anthropicTurns(Tail(msgs))

\* Mutant of openTurn: the open assistant turn is appended after every list.
openTurn_Always(msgs) == "Assistant: "

\* The tail both normalizers append: 'Assistant: ' if the last message is the
\* user's.
openTurn(msgs) == IF msgs[Len(msgs)].role = "user" THEN "Assistant: " ELSE ""

\* convertAnthropicMessagesToCopilotPrompt(messages, systemPrompt)
convertAnthropicMessagesToCopilotPrompt(msgs, sys) ==
    LET head == IF sys # "" THEN sys \o "\n\n" ELSE ""
    IN IF msgs = <<>> THEN head
       ELSE head \o anthropicTurns(msgs) \o openTurn(msgs)

\* ------------------------------------ services/copilot-service.ts: messages
\* The loop of convertMessagesToCopilotPrompt over msgs (string contents).
RECURSIVE openaiTurns(_)
openaiTurns(msgs) ==
    IF msgs = <<>> THEN ""
    ELSE LET text == msgs[1].content.text
             turn == IF text = "" THEN ""
                     ELSE CASE msgs[1].role = "system" -> text \o "\n\n"
                            [] msgs[1].role = "user" -> "User: " \o text \o "\n\n"
                            [] msgs[1].role = "assistant" -> "Assistant: " \o text \o "\n\n"
                            [] OTHER -> ""
         IN turn \o openaiTurns(Tail(msgs))

\* convertMessagesToCopilotPrompt(messages)
convertMessagesToCopilotPrompt(msgs) ==
    IF msgs = <<>> THEN ""
    ELSE openaiTurns(msgs) \o openTurn(msgs)

\* ------------------------------ services/anthropic-service.ts: responses
\* The characters String.prototype.trim removes.
Whitespace == {" ", "\n", "\t", "\r"}

RECURSIVE trimStart(_)
trimStart(str) ==
    IF str # "" /\ SubSeq(str, 1, 1) \in Whitespace
    THEN trimStart(SubSeq(str, 2, Len(str)))
    ELSE str

RECURSIVE trimEnd(_)
trimEnd(str) ==
    IF str # "" /\ SubSeq(str, Len(str), Len(str)) \in Whitespace
    THEN trimEnd(SubSeq(str, 1, Len(str) - 1))
    ELSE str

\* String.prototype.trim
trim(str) == trimEnd(trimStart(str))

\* The k-th value uuidv4() returns: each call returns a value not seen before.
RECURSIVE uuidv4(_)
uuidv4(k) == IF k = 0 THEN "uuid-" ELSE uuidv4(k - 1) \o "x"

\* Mutant of stopReasonOf: a "stop" finish is reported as end_turn.
stopReasonOf_StopIsEndTurn(finishReason) ==
    IF finishReason = "length" THEN "max_tokens" ELSE "end_turn"

\* The stop reason for the finish reason of the first choice ("null" when
\* there is no first choice or it has none).
stopReasonOf(finishReason) ==
    IF finishReason = "length" THEN "max_tokens"
    ELSE IF finishReason = "stop" THEN "stop_sequence"
    ELSE "end_turn"

\* Mutant of messageIdOf: the identifier is always drawn fresh.
messageIdOf_AlwaysFresh(backendId, k) == "msg_" \o uuidv4(k)

\* `msg_${copilotResponse.id || uuidv4()}`, k uuids having been drawn before.
messageIdOf(backendId, k) ==
    "msg_" \o (IF backendId # "" THEN backendId ELSE uuidv4(k))

\* convertCopilotToAnthropicResponse(copilotResponse, model), k uuids having
\* been drawn before.
convertCopilotToAnthropicResponse(copilotResponse, model, k) ==
    LET choices == copilotResponse.choices
        text == Join([i \in 1..Len(choices) |-> choices[i].text], "")
        finishReason == IF choices = <<>> THEN "null" ELSE choices[1].finish_reason
    IN [id |-> messageIdOf(copilotResponse.id, k),
        type |-> "message",
        role |-> "assistant",
        content |-> IF text # "" THEN <<TextBlock(trim(text))>> ELSE <<>>,
        model |-> model,
        stop_reason |-> stopReasonOf(finishReason),
        usage |-> IF copilotResponse.usage.present
                  THEN [input_tokens |-> copilotResponse.usage.prompt_tokens,
                        output_tokens |-> copilotResponse.usage.completion_tokens]
                  ELSE [input_tokens |-> 0, output_tokens |-> 0]]

\* Backend results: an id ("" when the backend sent none), choices with a text
\* and a finish reason ("null" when it is missing), and optional usage.
ChoiceTexts == {"", "Hi", " ", " there"}
FinishReasons == {"length", "stop", "content_filter", "null"}
Choices == [text : ChoiceTexts, finish_reason : FinishReasons]
BackendResults ==
    [id : {"", "cmpl-1"},
     choices : SeqsUpTo(Choices, MaxChoices),
     usage : {[present |-> FALSE],
              [present |-> TRUE, prompt_tokens |-> 3, completion_tokens |-> 5]}]
RequestedModel == "claude-sonnet-4-5-20250514"

\* convertCopilotToAnthropicResponse is applied to the backend result.
convertResponse ==
    /\ Len(outbound) < MaxCalls
    /\ outbound' = Append(outbound,
            convertCopilotToAnthropicResponse(backendResult, RequestedModel, uuids))
    /\ uuids' = IF backendResult.id # "" THEN uuids ELSE uuids + 1
    /\ UNCHANGED <<authVars, now, flowVars, pollVars, refreshing, directVars, issued, preClear, callVars,
                   textVars, backendResult, schemaVars, mapperVars>>

\* ---------------------------------------------------- inputs of the above
\* ------------------------------------------------- schemas/anthropic.ts
\* JSON values: a missing key is Absent, a number is held in tenths, an object
\* is a record of its keys with kind "object" (the keys the schemas read;
\* other keys are stripped by z.object).
Absent == [kind |-> "absent"]
Str(v) == [kind |-> "string", value |-> v]
Num(t) == [kind |-> "number", tenths |-> t]
Bool(v) == [kind |-> "boolean", value |-> v]
Arr(items) == [kind |-> "array", items |-> items]

\* z.string(), z.string().min(lo), z.string().min(lo).max(hi)
zString(v) == v.kind = "string"
zStringMin(v, lo) == zString(v) /\ Len(v.value) >= lo
zStringMinMax(v, lo, hi) == zStringMin(v, lo) /\ Len(v.value) <= hi
\* z.number().min(lo).max(hi), z.number().int().positive()
zNumberMinMax(v, lo, hi) == v.kind = "number" /\ v.tenths >= lo /\ v.tenths <= hi
zPositiveInt(v) == v.kind = "number" /\ v.tenths % 10 = 0 /\ v.tenths > 0
\* z.array(z.string())
zStrings(v) == v.kind = "array" /\ \A i \in 1..Len(v.items) : zString(v.items[i])

\* z.string().url() on the strings followed.
isUrl(v) == v \in {"https://example.com/cat.png"}

textBlockSchema(b) ==
    /\ b.type = Str("text")
    /\ zString(b.text)

imageBlockSchema(b) ==
    /\ b.type = Str("image")
    /\ b.source.kind = "object"
    /\ b.source.type \in {Str("base64"), Str("url")}
    /\ \/ b.source.media_type = Absent
       \/ b.source.media_type \in
              {Str("image/jpeg"), Str("image/png"), Str("image/gif"), Str("image/webp")}
    /\ (b.source.data = Absent \/ zString(b.source.data))
    /\ (b.source.url = Absent \/ (zString(b.source.url) /\ isUrl(b.source.url.value)))

contentBlockSchema(b) == textBlockSchema(b) \/ imageBlockSchema(b)

anthropicMessageSchema(m) ==
    /\ m.role \in {Str("user"), Str("assistant")}
    /\ \/ zString(m.content)
       \/ /\ m.content.kind = "array"
          /\ \A i \in 1..Len(m.content.items) : contentBlockSchema(m.content.items[i])

anthropicToolSchema(t) ==
    /\ zStringMinMax(t.name, 1, MaxToolName)
    /\ (t.description = Absent \/ zString(t.description))
    /\ t.input_schema.kind = "object"
    /\ t.input_schema.type = Str("object")
    /\ t.input_schema.properties.kind = "object"
    /\ (t.input_schema.required = Absent \/ zStrings(t.input_schema.required))

messagesSchema(v) ==
    /\ v.kind = "array"
    /\ \A i \in 1..Len(v.items) : anthropicMessageSchema(v.items[i])
    /\ Len(v.items) >= 1

\* Mutant of stopSequencesSchema: any number of entries.
stopSequencesSchema_NoLimit(v) == v = Absent \/ zStrings(v)

stopSequencesSchema(v) ==
    v = Absent \/ (zStrings(v) /\ Len(v.items) <= MaxStopSequences)

toolChoiceSchema(v) ==
    \/ v = Absent
    \/ v \in {Str("auto"), Str("any"), Str("none")}
    \/ v.kind = "object" /\ v.type = Str("tool") /\ zString(v.name)

metadataSchema(v) ==
    \/ v = Absent
    \/ v.kind = "object" /\ (v.user_id = Absent \/ zString(v.user_id))

anthropicMessageRequestSchema(b) ==
    /\ zStringMin(b.model, 1)
    /\ messagesSchema(b.messages)
    /\ zPositiveInt(b.max_tokens)
    /\ (b.system = Absent \/ zString(b.system))
    /\ (b.temperature = Absent \/ zNumberMinMax(b.temperature, 0, 10))
    /\ (b.top_p = Absent \/ zNumberMinMax(b.top_p, 0, 10))
    /\ (b.top_k = Absent \/ zPositiveInt(b.top_k))
    /\ stopSequencesSchema(b.stop_sequences)
    /\ (b.stream = Absent \/ b.stream.kind = "boolean")
    /\ \/ b.tools = Absent
       \/ b.tools.kind = "array" /\ \A i \in 1..Len(b.tools.items) :
                                        anthropicToolSchema(b.tools.items[i])
    /\ toolChoiceSchema(b.tool_choice)
    /\ metadataSchema(b.metadata)

\* validateRequest(anthropicMessageRequestSchema): next() or the 400 answer.
validateRequest ==
    /\ verdict = "none"
    /\ verdict' = IF anthropicMessageRequestSchema(requestBody)
                  THEN "accepted" ELSE "rejected"
    /\ UNCHANGED <<authVars, now, flowVars, pollVars, refreshing, directVars, issued, preClear,
                   callVars, textVars, synthVars, requestBody, mapperVars>>

\* Request bodies: the valid request of the schema's tests and the bodies
\* that differ from it in at most MaxEdits of the keys the schema declares.
Block(ty, text, source) == [type |-> ty, text |-> text, source |-> source]
ImageSource(ty, media, data, url) ==
    [kind |-> "object", type |-> ty, media_type |-> media, data |-> data, url |-> url]
Message(role, c) == [role |-> Str(role), content |-> c]
Tool(name) ==
    [name |-> Str(name), description |-> Absent,
     input_schema |-> [kind |-> "object", type |-> Str("object"),
                       properties |-> [kind |-> "object"], required |-> Absent]]

ValidRequest ==
    [model |-> Str("claude-opus-4-5-20250514"),
     messages |-> Arr(<<Message("user", Str("Hello!"))>>),
     max_tokens |-> Num(10240),
     system |-> Absent, temperature |-> Absent, top_p |-> Absent, top_k |-> Absent,
     stop_sequences |-> Absent, stream |-> Absent, tools |-> Absent,
     tool_choice |-> Absent, metadata |-> Absent]

RECURSIVE Stops(_)
Stops(n) == IF n = 0 THEN <<>> ELSE Append(Stops(n - 1), Str("STOP"))

MessageLists ==
    {<<>>,
     <<Message("assistant", Str("I can help with that!"))>>,
     <<Message("user", Str("Hello!")), Message("system", Str("Invalid role"))>>,
     <<Message("user", Arr(<<Block(Str("text"), Str("What is in this image?"), Absent),
                             Block(Str("image"), Absent,
                                   ImageSource(Str("base64"), Str("image/png"),
                                               Str("iVBORw0KGgo="), Absent))>>))>>,
     <<Message("user", Arr(<<Block(Str("image"), Absent,
                                   ImageSource(Str("url"), Absent, Absent,
                                               Str("not a url")))>>))>>,
     <<Message("user", Arr(<<Block(Str("tool_result"), Absent, Absent)>>))>>,
     <<Message("user", Absent)>>}

FieldValues ==
    [model |-> {Absent, Str(""), Str("claude-opus-4.5"), Num(10)},
     messages |-> {Absent, Str("Hello!")} \cup {Arr(ms) : ms \in MessageLists},
     max_tokens |-> {Absent, Num(-1000), Num(0), Num(5), Num(10), Str("1024")},
     system |-> {Str("You are a helpful assistant."),
                 Arr(<<Block(Str("text"), Str("Be brief."), Absent)>>)},
     temperature |-> {Num(-1), Num(0), Num(7), Num(10), Num(15), Str("0.7")},
     top_p |-> {Num(9), Num(20)},
     top_k |-> {Num(400), Num(0), Num(15)},
     stop_sequences |-> {Arr(Stops(n)) : n \in 0..MaxStops} \cup {Arr(<<Num(10)>>)},
     stream |-> {Bool(FALSE), Str("false")},
     tools |-> {Arr(<<Tool("get_weather")>>), Arr(<<Tool("")>>),
                Arr(<<Tool("a_tool_name_that_is_longer_than_the_sixty_four_characters_allowed")>>)},
     tool_choice |-> {Str("auto"), Str("required"),
                      [kind |-> "object", type |-> Str("tool"), name |-> Str("get_weather")],
                      [kind |-> "object", type |-> Str("function"), name |-> Str("get_weather")]},
     metadata |-> {[kind |-> "object", user_id |-> Str("user-1")],
                   [kind |-> "object", user_id |-> Num(70)], Str("user-1")}]

FieldEdits == UNION {{<<f, v>> : v \in FieldValues[f]} : f \in DOMAIN FieldValues}

RECURSIVE Edited(_)
Edited(n) ==
    IF n = 0 THEN {ValidRequest}
    ELSE LET prev == Edited(n - 1)
         IN  prev \cup {[b EXCEPT ![e[1]] = e[2]] : b \in prev, e \in FieldEdits}

\* ---------------------------------------------------- utils/model-mapper.ts
\* CLAUDE_MODEL_MAPPINGS of config/index.ts, in the order of Object.entries:
\* the entries the tests of the mapper name.
CLAUDE_MODEL_MAPPINGS ==
    <<<<"claude-opus-4-5-20250514", "claude-opus-4.5">>,
      <<"claude-sonnet-4-5-20250514", "claude-sonnet-4.5">>,
      <<"claude-haiku-4-5-20250514", "claude-haiku-4.5">>,
      <<"opus", "claude-opus-4.5">>,
      <<"sonnet", "claude-sonnet-4.5">>,
      <<"haiku", "claude-haiku-4.5">>,
      <<"claude-opus-4.5", "claude-opus-4.5">>,
      <<"claude-sonnet-4.5", "claude-sonnet-4.5">>,
      <<"claude-haiku-4.5", "claude-haiku-4.5">>>>

\* String.prototype.startsWith
startsWith(str, prefix) ==
    Len(prefix) <= Len(str) /\ SubSeq(str, 1, Len(prefix)) = prefix

\* The entries with key `model`, and those the loop's test lets through.
directMatches(model) ==
    {i \in 1..Len(CLAUDE_MODEL_MAPPINGS) : CLAUDE_MODEL_MAPPINGS[i][1] = model}
partialMatches(model) ==
    {i \in 1..Len(CLAUDE_MODEL_MAPPINGS) :
        \/ startsWith(model, CLAUDE_MODEL_MAPPINGS[i][1])
        \/ startsWith(CLAUDE_MODEL_MAPPINGS[i][1], model)}

Min(S) == CHOOSE i \in S : \A k \in S : i <= k

mapClaudeModelToCopilot(model) ==
    IF directMatches(model) # {}
    THEN CLAUDE_MODEL_MAPPINGS[Min(directMatches(model))][2]
    ELSE IF partialMatches(model) # {}
    THEN CLAUDE_MODEL_MAPPINGS[Min(partialMatches(model))][2]
    ELSE model

ModelNames ==
    {CLAUDE_MODEL_MAPPINGS[i][1] : i \in 1..Len(CLAUDE_MODEL_MAPPINGS)}
        \cup {"unknown-model", "gpt-4", "gpt-5.2", "gemini-3-pro", "claude",
              "claude-opus-4-5-20250514-v2", "claude-test-model"}

\* mapClaudeModelToCopilot(model) is called and returns.
mapModel ==
    \E model \in ModelNames :
        /\ Len(modelOut) < MaxCalls
        /\ modelIn' = model
        /\ modelOut' = Append(modelOut, mapClaudeModelToCopilot(model))
        /\ UNCHANGED <<authVars, now, flowVars, pollVars, refreshing, directVars, issued, preClear,
                       callVars, textVars, synthVars, schemaVars>>

Roles == {"user", "assistant", "system"}
MessageContents ==
    {StringContent("Hello"), StringContent(""),
     BlockContent(<<TextBlock("Hi")>>), BlockContent(<<OtherBlock("tool_use")>>)}
Messages == [role : Roles, content : MessageContents]
SystemPrompts == {"", "Be brief."}
Blocks ==
    {TextBlock("a"), TextBlock("bc"), TextBlock(""), OtherBlock("tool_use"),
     OtherBlock("tool_result"), OtherBlock("image"), OtherBlock("server_tool_use")}

\* A normalizer is applied to the message list.
normalizeAnthropic ==
    /\ normalizer = "none"
    /\ normalizer' = "anthropic"
    /\ prompt' = convertAnthropicMessagesToCopilotPrompt(messages, systemPrompt)
    /\ UNCHANGED <<authVars, now, flowVars, pollVars, refreshing, directVars, issued, preClear, callVars,
                   messages, systemPrompt, content, extracted, pureVars>>

\* The OpenAI route's messages have string contents and no separate system
\* prompt.
normalizeOpenAI ==
    /\ normalizer = "none"
    /\ systemPrompt = ""
    /\ \A i \in 1..Len(messages) : messages[i].content.kind = "string"
    /\ normalizer' = "openai"
    /\ prompt' = convertMessagesToCopilotPrompt(messages)
    /\ UNCHANGED <<authVars, now, flowVars, pollVars, refreshing, directVars, issued, preClear, callVars,
                   messages, systemPrompt, content, extracted, pureVars>>

\* extractTextContent is applied to the content.
extractText ==
    /\ extracted = <<>>
    /\ extracted' = <<extractTextContent(content)>>
    /\ UNCHANGED <<authVars, now, flowVars, pollVars, refreshing, directVars, issued, preClear, callVars,
                   messages, systemPrompt, normalizer, prompt, content, pureVars>>

\* ------------------------------------------------------------ specification
\* The completion route and its streaming bridge together with the credential
\* store they read.  Sign-in runs through initiateDeviceFlow and the flow's own
\* continuation; the store is then changed by refreshes, by clearTokens and by
\* the clock while a call is in flight.
Next ==
    \/ Tick
    \/ initiateDeviceFlow
    \/ onVerification
    \/ FlowAuthorized
    \/ flowAuthRejected
    \/ TokenEndpointAnswers
    \/ clearTokens
    \/ RequestArrives
    \/ BackendAnswersCompletion
    \/ BackendAnswersOpen
    \/ BackendSendsEvent
    \/ streamClosed
    \/ streamBroken
    \/ streamRetry

Spec == Init /\ [][Next]_vars

\* The same system with an inbound caller that may go away during a streaming
\* call.
NextCancel ==
    \/ Next
    \/ clientDisconnects

SpecCancel == Init /\ [][NextCancel]_vars

\* The credential manager alone, with every exported operation of
\* auth-service.ts callable at any time.
NextAuth ==
    \/ Tick
    \/ initiateDeviceFlow
    \/ onVerification
    \/ FlowAuthorized
    \/ flowAuthRejected
    \/ checkDeviceFlowAuth
    \/ PollAnswered
    \/ refreshCopilotToken
    \/ TokenEndpointAnswers
    \/ clearTokens

SpecAuth == Init /\ [][NextAuth]_vars

\* The message normalizers applied to every message list of at most MaxMsgs
\* messages.
InitText ==
    /\ InitProxy
    /\ TextIdle
    /\ PureIdle
    /\ PureUnset
    /\ messages \in SeqsUpTo(Messages, MaxMsgs)
    /\ systemPrompt \in SystemPrompts
    /\ content = StringContent("")

NextText ==
    \/ normalizeAnthropic
    \/ normalizeOpenAI

SpecText == InitText /\ [][NextText]_vars

\* extractTextContent applied to every string content and every array of at
\* most MaxBlocks content blocks.
InitExtract ==
    /\ InitProxy
    /\ TextIdle
    /\ PureIdle
    /\ PureUnset
    /\ messages = <<>>
    /\ systemPrompt = ""
    /\ content \in {StringContent(t) : t \in {"", "Hello", "a\nb"}}
                    \cup {BlockContent(bs) : bs \in SeqsUpTo(Blocks, MaxBlocks)}
                    \cup {OtherContent}

NextExtract == extractText

SpecExtract == InitExtract /\ [][NextExtract]_vars

\* The device flow alone, with a provider that answers every flow it was
\* asked to start: the auth() call of a started flow eventually delivers its
\* challenge, resolves or rejects.
NextFlow ==
    \/ Tick
    \/ initiateDeviceFlow
    \/ onVerification
    \/ FlowAuthorized
    \/ flowAuthRejected
    \/ TokenEndpointAnswers
    \/ clearTokens

SpecFlowLive ==
    /\ Init
    /\ [][NextFlow]_vars
    /\ WF_vars(onVerification \/ FlowAuthorized \/ flowAuthRejected)
    /\ WF_vars(TokenEndpointAnswers)

\* The request schema applied to every request body within MaxEdits keys of
\* the valid request.
InitSchema ==
    /\ InitProxy
    /\ TextIdle
    /\ messages = <<>>
    /\ systemPrompt = ""
    /\ content = StringContent("")
    /\ PureIdle
    /\ backendResult = [id |-> "", choices |-> <<>>, usage |-> [present |-> FALSE]]
    /\ requestBody \in Edited(MaxEdits)
    /\ modelIn = ""

NextSchema == validateRequest

SpecSchema == InitSchema /\ [][NextSchema]_vars

\* mapClaudeModelToCopilot called up to MaxCalls times.
InitMapper ==
    /\ InitProxy
    /\ TextIdle
    /\ messages = <<>>
    /\ systemPrompt = ""
    /\ content = StringContent("")
    /\ PureIdle
    /\ PureUnset

NextMapper == mapModel

SpecMapper == InitMapper /\ [][NextMapper]_vars

\* Calls of a signed-in proxy: the device flow has completed and a credential
\* is stored; the backend's payloads are followed with their content.
InitStream ==
    /\ githubToken = "gho_A"
    /\ copilotToken = [token |-> "tid_1", expires_at |-> SkewSeconds + 1]
    /\ pendingVerification = Verification
    /\ now = 0
    /\ flowPc = "done"
    /\ flowPromise = "resolved"
    /\ pollPc = "idle"
    /\ pollResult = "none"
    /\ pollAnswer = "none"
    /\ refreshing = {}
    /\ directResult = "none"
    /\ yields = <<>>
    /\ issued = copilotToken
    /\ preClear = {}
    /\ callPc = "idle"
    /\ callStream = FALSE
    /\ callBody = "ok"
    /\ callErr = "none"
    /\ bearer = ""
    /\ attempts = 0
    /\ firstOpen = "none"
    /\ recv = <<>>
    /\ res = NewResponse
    /\ clientGone = FALSE
    /\ startedStale = FALSE
    /\ mwRefreshed = FALSE
    /\ TextIdle
    /\ PureIdle
    /\ PureUnset
    /\ messages = <<>>
    /\ systemPrompt = ""
    /\ content = StringContent("")

NextStream ==
    \/ RequestArrives
    \/ TokenEndpointAnswers
    \/ BackendAnswersCompletion
    \/ BackendAnswersOpen
    \/ BackendSendsEvent
    \/ BackendSendsPayload
    \/ streamClosed
    \/ streamBroken
    \/ streamRetry

SpecStream == InitStream /\ [][NextStream]_vars

\* convertCopilotToAnthropicResponse applied MaxCalls times to every backend
\* result of at most MaxChoices choices.
InitSynth ==
    /\ InitProxy
    /\ TextIdle
    /\ messages = <<>>
    /\ systemPrompt = ""
    /\ content = StringContent("")
    /\ PureIdle
    /\ backendResult \in BackendResults
    /\ requestBody = [kind |-> "absent"]
    /\ modelIn = ""

NextSynth == convertResponse

SpecSynth == InitSynth /\ [][NextSynth]_vars

\* ------------------------------------------------------------------ claims
StreamPcs == {"connecting", "open", "retryWait", "resolved"}

\* The outbound events a run of backend events is translated to, one each.
Translated(evs) ==
    [i \in 1..Len(evs) |->
        CASE evs[i] = "[DONE]" -> <<"done">>
          [] evs[i] = "fragment" -> <<"chunk">>
          [] OTHER -> <<"error", "fragment">>]

\* n valid fragments followed by the terminal marker.
CleanRun(n) == [i \in 1..(n + 1) |-> IF i <= n THEN "fragment" ELSE "[DONE]"]

\* The events of the outbound channel that report a failed connection.
ConnectionErrors ==
    {i \in 1..Len(res.out) : res.out[i][1] = "error" /\ res.out[i][2] # "fragment"}

\* The call has hit an unrecoverable backend error (onerror has run).
HasErrored == callPc = "retryWait" \/ attempts > 1

\* C1: a streaming call that starts while isTokenValid() is false and an
\* identity token is held has refreshCopilotToken() invoked for it (and is not
\* turned away without a refresh).
C1_StaleStartRefreshes ==
    (callStream /\ startedStale) => (mwRefreshed /\ callErr # "authentication_required")

\* C2 as stated: isTokenValid() is true iff a credential is stored and
\* now < expires_at - 60.
C2_ValidIffStoredAndFresh ==
    isTokenValid <=> (copilotToken # Null /\ now < copilotToken.expires_at - SkewSeconds)

\* C2 amended: isTokenValid() is true iff a credential with a non-empty token is
\* stored and now < expires_at - 60: for such a credential it is false at every
\* now >= expires_at - 60 and true at now = expires_at - 61; it is false for a
\* stored credential whose token is empty and when no credential is stored.
C2_ValidIffPopulatedAndFresh ==
    /\ copilotToken = Null => ~isTokenValid
    /\ copilotToken # Null =>
        /\ copilotToken.token = "" => ~isTokenValid
        /\ copilotToken.token # "" =>
            /\ now + SkewSeconds >= copilotToken.expires_at => ~isTokenValid
            /\ now + SkewSeconds + 1 = copilotToken.expires_at => isTokenValid
            /\ now + SkewSeconds < copilotToken.expires_at => isTokenValid

C2_Witness ==
    /\ copilotToken # Null
    /\ copilotToken.token # ""
    /\ now + SkewSeconds + 1 = copilotToken.expires_at
    /\ isTokenValid

\* C3: every backend request leaves with the credential stored at that moment,
\* and isTokenValid() is true for it.
C3_RequestsCarryValidCredential ==
    [][attempts' # attempts =>
        /\ copilotToken' # Null
        /\ copilotToken'.token = bearer'
        /\ CredValidAt(copilotToken', now')]_vars

\* C4: for every n, a streaming call whose backend sends n valid fragments, then
\* the terminal marker, and then closes writes exactly n chunks followed by one
\* terminal event, and its response is ended exactly once.
C4_CleanStreamTranslated ==
    \A n \in 0..MaxEvents :
        (callPc = "resolved" /\ attempts = 1 /\ recv = CleanRun(n)) =>
            /\ res.out = Translated(CleanRun(n))
            /\ Len(res.out) = n + 1
            /\ res.ended = 1
            /\ res.late = 0

C4_Witness ==
    /\ callPc = "resolved"
    /\ attempts = 1
    /\ recv = <<"fragment", "[DONE]">>
    /\ res.out = <<<<"chunk">>, <<"done">>>>
    /\ res.ended = 1

\* C5: once the terminal marker has been seen or the response has been ended no
\* further backend event is accepted, and the response is ended at most once,
\* exactly once when the call is over.
C5_NothingAfterTerminal ==
    /\ [][((\E i \in 1..Len(recv) : recv[i] = "[DONE]") \/ res.ended > 0)
            => recv' = recv]_vars
    /\ [](res.ended <= 1)
    /\ [](callPc = "resolved" => res.ended = 1)

\* C6: a streaming call that hits a backend connection error or a non-2xx open
\* has exactly one connection-error event on its outbound channel, nothing
\* follows that event, and the response is ended with it; a call that has not
\* hit such an error has no such event.
C6_ErrorEventThenClosed ==
    /\ Cardinality(ConnectionErrors) <= 1
    /\ HasErrored =>
        /\ Cardinality(ConnectionErrors) = 1
        /\ Len(res.out) \in ConnectionErrors
        /\ res.ended >= 1
    /\ ~HasErrored => ConnectionErrors = {}

C6_Witness ==
    /\ callPc = "retryWait"
    /\ firstOpen = "bad_status"
    /\ res.out = <<<<"error", "bad_status">>>>
    /\ res.ended = 1

\* C7: while the first connection streams, every backend event has exactly one
\* outbound event in its place: a payload that cannot be parsed has one error
\* event, the fragments after it are still translated, the call is still
\* streaming and the response is not ended.
C7_BadFragmentIsLocal ==
    /\ (callPc = "open" /\ attempts = 1) =>
        /\ res.ended = 0
        /\ res.out = Translated(recv)
    /\ (callPc \in StreamPcs /\ attempts = 1 /\ res.ended = 0 /\ recv # <<>>) =>
        callPc = "open"

C7_Witness ==
    /\ callPc = "open"
    /\ recv = <<"malformed", "fragment">>
    /\ res.out = <<<<"error", "fragment">>, <<"chunk">>>>
    /\ res.ended = 0

\* C8: when the first open of a streaming call is answered with a non-2xx
\* status, no backend event is ever translated for the call.
C8_BadOpenTranslatesNothing ==
    firstOpen = "bad_status" => recv = <<>>

\* C9: after the inbound caller has disconnected no further backend event is
\* pulled and translated for the call.
C9_DisconnectStopsPulling ==
    [][clientGone => recv' = recv]_vars

\* C10: the backend endpoint is contacted at most once per inbound call.
C10_AtMostOneBackendRequest ==
    attempts <= 1

\* A direct refreshCopilotToken() call is made in this step.
RefreshCalled ==
    /\ "direct" \notin refreshing
    /\ (directResult' # directResult \/ "direct" \in refreshing')

\* A refreshCopilotToken() call awaited by `owner` settles in this step.
RefreshReturns(owner) == owner \in refreshing /\ owner \notin refreshing'

\* C11: a refreshCopilotToken() call made while no identity token is held
\* fails at once without a request to the token endpoint, and a call whose
\* exchange fails (for the direct caller and for checkDeviceFlowAuth) fails
\* with the identity token, the credential and the pending verification exactly
\* as they were.
C11_FailedRefreshChangesNothing ==
    [][/\ (RefreshCalled /\ githubToken = NoGithubToken) =>
            /\ directResult' = "no_identity_token"
            /\ refreshing' = refreshing
            /\ authVars' = authVars
       /\ (RefreshCalled /\ githubToken # NoGithubToken) =>
            /\ "direct" \in refreshing'
            /\ authVars' = authVars
       /\ (RefreshReturns("direct") /\ directResult' = "exchange_failed") =>
            authVars' = authVars
       /\ (RefreshReturns("poll") /\ pollResult' = "threw") =>
            authVars' = authVars]_vars

C11_Witness ==
    /\ directResult = "exchange_failed"
    /\ "direct" \notin refreshing
    /\ githubToken # NoGithubToken
    /\ copilotToken # Null
    /\ copilotToken.token # ""

\* C12 as stated: the credentials two successive refreshCopilotToken() calls
\* return have non-decreasing expires_at, and getCopilotToken() is never null
\* during or between the calls.
C12_RefreshMonotoneNeverAbsent ==
    /\ Len(yields) = 2 => yields[1] <= yields[2]
    /\ ("direct" \in refreshing \/ yields # <<>>) => getCopilotToken # Null

\* C12 amended: no step of a refreshCopilotToken() call (its start, its
\* success, its failure) makes a stored credential absent, the start leaves the
\* stored credential as it is, and a successful call returns the credential it
\* has just stored.
C12_RefreshNeverDropsCredential ==
    [][/\ RefreshCalled => copilotToken' = copilotToken
       /\ \A owner \in {"direct", "poll", "flow"} :
            (RefreshReturns(owner) /\ getCopilotToken # Null) => getCopilotToken' # Null
       /\ (RefreshReturns("direct") /\ directResult' = "ok") =>
            /\ getCopilotToken' # Null
            /\ yields'[Len(yields')] = getCopilotToken'.expires_at]_vars

C12_Witness ==
    /\ Len(yields) = 2
    /\ directResult = "ok"
    /\ copilotToken # Null
    /\ copilotToken.expires_at = yields[2]
    /\ yields[2] < yields[1]

\* The manager is signed in: an identity token and a credential are stored.
Active == githubToken # NoGithubToken /\ copilotToken # Null

\* checkDeviceFlowAuth() is called in this step.
PollCalled == pollPc = "idle" /\ pollVars' # pollVars

\* C13: a checkDeviceFlowAuth() call made while the manager is Active returns
\* true, and one made while it is not Active and no verification is pending
\* returns false; in both cases the provider is not asked and the identity
\* token, the credential and the pending verification stay as they are.
C13_PollReturnsAtOnce ==
    [][PollCalled =>
        /\ Active =>
            /\ pollPc' = "idle" /\ pollResult' = "true" /\ pollAnswer' = "none"
            /\ authVars' = authVars /\ refreshing' = refreshing
        /\ (~Active /\ pendingVerification = Null) =>
            /\ pollPc' = "idle" /\ pollResult' = "false" /\ pollAnswer' = "none"
            /\ authVars' = authVars /\ refreshing' = refreshing]_vars

C13_Witness ==
    /\ Active
    /\ pollPc = "idle"
    /\ pollResult = "true"
    /\ pollAnswer = "none"

\* C14: when the provider answers the check of checkDeviceFlowAuth() with
\* authorization_pending the call returns false and the identity token, the
\* credential and the pending verification stay as they are, with no token
\* exchange started; when it answers with any other error the call throws.
C14_PendingIsNotAnError ==
    /\ [](pollAnswer = "authorization_pending" => (pollPc = "idle" /\ pollResult = "false"))
    /\ [](pollAnswer \in ProviderAnswers \ {"token", "authorization_pending"} =>
            (pollPc = "idle" /\ pollResult = "threw"))
    /\ [][(pollPc = "awaitAuth" /\ pollAnswer' = "authorization_pending") =>
            (authVars' = authVars /\ refreshing' = refreshing)]_vars

C14_Witness ==
    /\ pollAnswer = "authorization_pending"
    /\ pollPc = "idle"
    /\ pollResult = "false"
    /\ pendingVerification # Null
    /\ githubToken = NoGithubToken

\* clearTokens() is called in this step and had something to clear.
ClearCalled ==
    \/ githubToken # NoGithubToken /\ githubToken' = NoGithubToken
    \/ copilotToken # Null /\ copilotToken' = Null

\* C15: right after clearTokens() the identity token and the credential are
\* absent, getCopilotToken() is null, isTokenValid() is false, and
\* checkDeviceFlowAuth() returns false without asking the provider, as it does
\* in the initial state.
C15_ClearResetsManager ==
    [][ClearCalled =>
        /\ githubToken' = NoGithubToken
        /\ copilotToken' = Null
        /\ getCopilotToken' = Null
        /\ ~isTokenValid'
        /\ checkDeviceFlowAuthEarly' = "false"]_vars

\* C16: every initiateDeviceFlow() call resolves with the verification in the
\* step in which the provider's challenge arrives, with the verification
\* stored and the flow's token polling still under way, and is rejected in the
\* step in which its flow fails before a challenge has arrived for it.
C16_FlowResolvesOrRejects ==
    [][/\ (flowPc = "started" /\ flowPc' = "polling") =>
            (flowPromise' = "resolved" /\ pendingVerification' = Verification)
       /\ (flowPc = "started" /\ flowPc' = "done") =>
            flowPromise' = "rejected"]_vars

\* The string s ends with the string suffix.
EndsWith(s, suffix) ==
    /\ Len(s) >= Len(suffix)
    /\ SubSeq(s, Len(s) - Len(suffix) + 1, Len(s)) = suffix

\* C17: for every non-empty message list, on both normalizers, the prompt ends
\* with the open turn "Assistant: " exactly when the last message is the
\* user's.
C17_UserLastOpensAssistantTurn ==
    (normalizer # "none" /\ messages # <<>>) =>
        (EndsWith(prompt, "Assistant: ") <=> messages[Len(messages)].role = "user")

C17_Witness ==
    /\ normalizer = "anthropic"
    /\ systemPrompt = ""
    /\ messages = <<[role |-> "assistant", content |-> StringContent("Hello")],
                    [role |-> "user", content |-> BlockContent(<<TextBlock("Hi")>>)]>>
    /\ prompt = "Assistant: Hello\n\nHuman: Hi\n\nAssistant: "

\* The message list [{role: "user", content: "Hello"}] with no system prompt.
HelloRequest ==
    /\ messages = <<[role |-> "user", content |-> StringContent("Hello")]>>
    /\ systemPrompt = ""

\* C18 as stated: for [{role: "user", content: "Hello"}] with no system prompt
\* both normalizers return "User: Hello\n\nAssistant: ".
C18_HelloPromptSameOnEveryPath ==
    (HelloRequest /\ normalizer # "none") => prompt = "User: Hello\n\nAssistant: "

\* C18 amended: for that list convertMessagesToCopilotPrompt returns
\* "User: Hello\n\nAssistant: " and convertAnthropicMessagesToCopilotPrompt
\* returns "Human: Hello\n\nAssistant: ".
C18_HelloPromptPerPath ==
    HelloRequest =>
        /\ normalizer = "openai" => prompt = "User: Hello\n\nAssistant: "
        /\ normalizer = "anthropic" => prompt = "Human: Hello\n\nAssistant: "

C18_Witness ==
    /\ HelloRequest
    /\ normalizer = "anthropic"
    /\ prompt = "Human: Hello\n\nAssistant: "

\* C19: the prompt a normalizer returns for a non-empty message list is never
\* the empty string.
C19_PromptNeverEmpty ==
    (normalizer # "none" /\ messages # <<>>) => prompt # ""

\* The texts of the text blocks of bs, in the order of bs.
TextsOf(bs) ==
    LET idx == {i \in 1..Len(bs) : bs[i].type = "text"}
        nth(k) == CHOOSE i \in idx : Cardinality({j \in idx : j < i}) = k - 1
    IN [k \in 1..Cardinality(idx) |-> bs[nth(k)].text]

\* Where the k-th of the texts ts starts in their newline-joined string.
RECURSIVE StartOf(_, _)
StartOf(ts, k) == IF k = 1 THEN 1 ELSE StartOf(ts, k - 1) + Len(ts[k - 1]) + 1

\* C20: extractTextContent returns a string content unchanged; for an array of
\* blocks it returns the texts of the text blocks, each in its place in the
\* order of the array, with one newline between neighbours and nothing else,
\* so the empty string when the array has no text block; every other content
\* gives the empty string.
C20_ExtractJoinsTextBlocks ==
    extracted # <<>> =>
        LET out == extracted[1]
        IN IF content.kind = "string" THEN out = content.text
           ELSE IF content.kind # "blocks" THEN out = ""
           ELSE LET ts == TextsOf(content.blocks)
                    n == Len(ts)
                IN /\ n = 0 => out = ""
                   /\ n > 0 => Len(out) = StartOf(ts, n) + Len(ts[n]) - 1
                   /\ \A k \in 1..n :
                        SubSeq(out, StartOf(ts, k), StartOf(ts, k) + Len(ts[k]) - 1) = ts[k]
                   /\ \A k \in 1..(n - 1) :
                        SubSeq(out, StartOf(ts, k) + Len(ts[k]), StartOf(ts, k) + Len(ts[k])) = "\n"

C20_Witness ==
    /\ content = BlockContent(<<TextBlock("a"), OtherBlock("image"), TextBlock("bc")>>)
    /\ extracted = <<"a\nbc">>

\* The finish reason convertCopilotToAnthropicResponse reads: that of the first
\* choice, "null" when the result has no choice.
BackendFinishReason ==
    IF backendResult.choices = <<>> THEN "null" ELSE backendResult.choices[1].finish_reason

\* C21: every message convertCopilotToAnthropicResponse returns has stop reason
\* max_tokens for finish reason "length", stop_sequence for "stop" and end_turn
\* for any other or a missing finish reason.
C21_StopReasonMapped ==
    \A i \in 1..Len(outbound) :
        /\ outbound[i].stop_reason \in {"max_tokens", "stop_sequence", "end_turn"}
        /\ outbound[i].stop_reason = "max_tokens" <=> BackendFinishReason = "length"
        /\ outbound[i].stop_reason = "stop_sequence" <=> BackendFinishReason = "stop"

C21_Witness ==
    /\ outbound # <<>>
    /\ BackendFinishReason = "stop"
    /\ outbound[1].stop_reason = "stop_sequence"

\* C22 as stated: any two calls of convertCopilotToAnthropicResponse return
\* messages with different ids.
C22_IdsAlwaysFresh ==
    \A i, j \in 1..Len(outbound) : i # j => outbound[i].id # outbound[j].id

\* C22 amended: the id is "msg_" followed by the backend result's id when it
\* has one, so two calls given that result return the same id; two calls given
\* a result without an id return different ids.
C22_IdFromBackendOrFresh ==
    \A i, j \in 1..Len(outbound) :
        /\ backendResult.id # "" => outbound[i].id = "msg_" \o backendResult.id
        /\ (backendResult.id = "" /\ i # j) => outbound[i].id # outbound[j].id

C22_Witness ==
    /\ Len(outbound) = 2
    /\ backendResult.id = "cmpl-1"
    /\ outbound[1].id = "msg_cmpl-1"
    /\ outbound[2].id = "msg_cmpl-1"

\* The texts of all choices of the backend result, concatenated in choice order.
BackendText ==
    Join([i \in 1..Len(backendResult.choices) |-> backendResult.choices[i].text], "")

\* C23: the content of every message convertCopilotToAnthropicResponse returns
\* is one text block holding the concatenated text of all choices when that
\* text is non-empty, and is empty otherwise; no text block has empty text.
C23_OneTextUnitOfAllChoices ==
    \A i \in 1..Len(outbound) :
        /\ BackendText # "" => outbound[i].content = <<TextBlock(BackendText)>>
        /\ BackendText = "" => outbound[i].content = <<>>
        /\ \A k \in 1..Len(outbound[i].content) : outbound[i].content[k].text # ""

\* A backend event is delivered to onmessage.
Delivered(ev) == callPc = "open" /\ recv' = Append(recv, ev)

\* C24: mid-stream, on a response that has not been ended, the backend
\* fragment {"choices":[{"text":"Hi","finish_reason":null}]} makes onmessage
\* write exactly one event, the text delta carrying "Hi" with a null
\* finish_reason, and neither the terminal marker nor the end of the response;
\* the terminal marker is only ever written when the backend's terminal marker
\* is delivered.
C24_HiFragmentOneDeltaNoClose ==
    [][/\ (Delivered(HiFragment) /\ res.ended = 0) =>
            /\ res'.out = Append(res.out, <<"chunk", "Hi", "null">>)
            /\ res'.ended = 0
            /\ res'.late = res.late
       /\ (Len(res'.out) > Len(res.out) /\ res'.out[Len(res'.out)] = <<"done">>) =>
            Delivered("[DONE]")]_vars

\* The Hi fragment was delivered mid-stream and the terminal marker after it.
C24_Witness ==
    /\ recv = <<HiFragment, "[DONE]">>
    /\ res.out = <<<<"chunk", "Hi", "null">>, <<"done">>>>
    /\ res.ended = 0

\* The outbound event onmessage writes for backend event ev.
CausedBy(ev) == onmessage(NewResponse, ev).out[1]

\* C25: outbound events are in the order of the backend events that caused
\* them and nothing is held back: while no connection error has occurred the
\* i-th event written is the one caused by the i-th backend event delivered,
\* the event caused by a delivery is written at the end of the output in the
\* step of the delivery, and what was written is never moved or removed.
C25_OutboundInBackendOrder ==
    /\ [](~HasErrored =>
            /\ Len(res.out) = Len(recv)
            /\ \A i \in 1..Len(recv) : res.out[i] = CausedBy(recv[i]))
    /\ [][/\ Len(res'.out) >= Len(res.out)
          /\ SubSeq(res'.out, 1, Len(res.out)) = res.out
          /\ \A ev \in BackendEvents \cup ParsedPayloads :
                (Delivered(ev) /\ res.ended = 0) =>
                    res'.out = Append(res.out, CausedBy(ev))]_vars

\* Two different events were delivered one after the other.
C25_Witness ==
    /\ recv = <<"malformed", HiFragment>>
    /\ res.out = <<<<"error", "fragment">>, <<"chunk", "Hi", "null">>>>
    /\ ~HasErrored

\* The five conditions of C26 on a request body.
C26_Named(b) ==
    /\ b.model.kind = "string" /\ Len(b.model.value) > 0
    /\ b.messages.kind = "array" /\ Len(b.messages.items) > 0
    /\ \A i \in 1..Len(b.messages.items) :
          b.messages.items[i].role \in {Str("user"), Str("assistant")}
    /\ b.max_tokens.kind = "number" /\ b.max_tokens.tenths > 0
    /\ b.max_tokens.tenths % 10 = 0
    /\ \/ b.temperature = Absent
       \/ b.temperature.kind = "number" /\ b.temperature.tenths \in 0..10
    /\ b.stop_sequences = Absent
         \/ (b.stop_sequences.kind = "array" /\ Len(b.stop_sequences.items) <= 4)

\* What the schema requires beyond them: the content of every message, the
\* entries of stop_sequences and the other keys it declares.
C26_Further(b) ==
    /\ \A i \in 1..Len(b.messages.items) :
          LET c == b.messages.items[i].content
          IN  \/ c.kind = "string"
              \/ c.kind = "array" /\ \A k \in 1..Len(c.items) : contentBlockSchema(c.items[k])
    /\ b.stop_sequences = Absent
         \/ \A i \in 1..Len(b.stop_sequences.items) : b.stop_sequences.items[i].kind = "string"
    /\ b.system.kind \in {"absent", "string"}
    /\ b.top_p = Absent \/ (b.top_p.kind = "number" /\ b.top_p.tenths \in 0..10)
    /\ b.top_k = Absent
         \/ (b.top_k.kind = "number" /\ b.top_k.tenths > 0 /\ b.top_k.tenths % 10 = 0)
    /\ b.stream.kind \in {"absent", "boolean"}
    /\ b.tools = Absent
         \/ (b.tools.kind = "array"
               /\ \A i \in 1..Len(b.tools.items) : anthropicToolSchema(b.tools.items[i]))
    /\ toolChoiceSchema(b.tool_choice)
    /\ metadataSchema(b.metadata)

\* C26 as stated: a request body is accepted if and only if model is a
\* non-empty string, messages a non-empty array of user and assistant
\* messages, max_tokens a positive integer, temperature when present in
\* [0, 1] and stop_sequences when present of at most 4 entries.
C26_AcceptedIffNamedConditions ==
    verdict # "none" => (verdict = "accepted" <=> C26_Named(requestBody))

\* C26 amended: a body violating one of the five conditions is rejected, and a
\* body meeting all five is accepted if and only if, in addition, every
\* message content is a string or an array of text and image blocks, the
\* stop_sequences entries are strings, and system, top_p, top_k, stream,
\* tools, tool_choice and metadata, when present, are valid.
C26_AcceptedIffEveryFieldValid ==
    verdict # "none" =>
        /\ ~C26_Named(requestBody) => verdict = "rejected"
        /\ C26_Named(requestBody) =>
              (verdict = "accepted" <=> C26_Further(requestBody))

\* The schema was applied to a body with four stop sequences and temperature
\* 1 that it accepts.
C26_Witness ==
    /\ verdict = "accepted"
    /\ requestBody.stop_sequences = Arr(Stops(4))
    /\ requestBody.temperature = Num(10)

\* C27: a model name that matches no known mapping, neither as a key nor as a
\* prefix of a key nor with a key as its prefix, is mapped to the default
\* "claude-opus-4.5".
C27_UnknownModelGetsDefault ==
    (modelOut # <<>> /\ directMatches(modelIn) = {} /\ partialMatches(modelIn) = {})
        => modelOut[Len(modelOut)] = "claude-opus-4.5"

\* C28: one credential is stored at a time and it is replaced whole: the value
\* getCopilotToken() returns is either absent or, with both its token and its
\* expires_at, the body of the token endpoint's last successful answer, and
\* the stored value only changes in the one step in which a refresh returns
\* or in clearTokens().
C28_CredentialReplacedWhole ==
    /\ [](getCopilotToken = Null \/ getCopilotToken = issued)
    /\ [][copilotToken' # copilotToken =>
            \/ ClearCalled /\ copilotToken' = Null
            \/ /\ \E owner \in refreshing : RefreshReturns(owner)
               /\ copilotToken' = issued']_vars

\* A refresh replaced a stored credential by one that differs from it in both
\* fields.
C28_Witness ==
    /\ Len(yields) = 2
    /\ yields[1] # yields[2]
    /\ copilotToken = issued
    /\ copilotToken # Null
    /\ copilotToken.expires_at = yields[2]
    /\ copilotToken.token = "tid_2"
    /\ refreshing = {}

\* C29: when the provider check of checkDeviceFlowAuth() yields a token, the
\* identity token is stored and one credential exchange is started at once,
\* and the call returns true only when that exchange has returned, with an
\* identity token and a credential both stored.
C29_PollTrueMeansBothStored ==
    [][/\ (pollPc = "awaitAuth" /\ pollAnswer' = "token") =>
            /\ githubToken' # NoGithubToken
            /\ "poll" \in refreshing' /\ "poll" \notin refreshing
            /\ pollPc' = "awaitRefresh"
       /\ (pollPc = "awaitRefresh" /\ pollPc' = "idle" /\ pollResult' = "true") =>
            /\ RefreshReturns("poll")
            /\ githubToken' # NoGithubToken
            /\ copilotToken' # Null]_vars

\* C30: whenever an identity token and a credential are stored, no
\* verification descriptor is pending.
C30_NoDescriptorWhileActive ==
    Active => pendingVerification = Null

\* clearTokens() runs in this step.
ClearStep ==
    /\ githubToken' = NoGithubToken
    /\ copilotToken' = Null
    /\ UNCHANGED <<pendingVerification, now, flowVars, pollVars, refreshing, callVars>>

\* checkDeviceFlowAuth() stores the provider's token in this step.
PollStoresToken == pollPc = "awaitAuth" /\ pollPc' = "awaitRefresh"

\* The continuation of initiateDeviceFlow()'s auth() call runs in this step.
FlowContinues == flowPc = "polling" /\ flowPc' = "done"

\* C31 as stated: the identity token is only changed by checkDeviceFlowAuth()
\* and clearTokens(), the credential only by a refreshCopilotToken() call
\* that was not started by initiateDeviceFlow()'s continuation and by
\* clearTokens(); translation calls change neither except through the
\* refresh of their auth check.
C31_OnlyRefreshAndPollWrite ==
    [][/\ githubToken' # githubToken => (PollStoresToken \/ ClearStep)
       /\ copilotToken' # copilotToken =>
            (ClearStep \/ \E owner \in refreshing \ {"flow"} : RefreshReturns(owner))]_vars

\* C31 amended: the identity token is only changed by checkDeviceFlowAuth(),
\* by the continuation of initiateDeviceFlow() and by clearTokens(); the
\* credential only in the step in which a refreshCopilotToken() call returns,
\* whoever started it, and by clearTokens().
C31_WritersOfTheStore ==
    [][/\ githubToken' # githubToken =>
            (PollStoresToken \/ FlowContinues \/ ClearStep)
       /\ copilotToken' # copilotToken =>
            (ClearStep \/ \E owner \in refreshing : RefreshReturns(owner))]_vars

\* The flow's continuation stored the identity token and the refresh it
\* started stored the credential while a streaming call was reading the store.
C31_Witness ==
    /\ flowPc = "done"
    /\ githubToken # NoGithubToken
    /\ copilotToken # Null
    /\ copilotToken.token = "tid_2"
    /\ ~mwRefreshed
    /\ callPc = "open"
    /\ bearer = "tid_1"

\* The streaming call's backend connection fails in this step.
StreamFails == callPc \in {"connecting", "open"} /\ callPc' = "retryWait"

\* C32: when the backend connection of a streaming call fails after something
\* was written to the response and before it was ended, one error event is
\* written after what was written and the response is ended, and the failure
\* is not handed to the error handler; a call is only handed to the error
\* handler while nothing has been written to its response, and nothing is
\* written then.
C32_FailureAfterWriteEmitsError ==
    [][/\ (StreamFails /\ res.headersSent /\ res.ended = 0) =>
            /\ Len(res'.out) = Len(res.out) + 1
            /\ SubSeq(res'.out, 1, Len(res.out)) = res.out
            /\ res'.out[Len(res'.out)][1] = "error"
            /\ res'.ended = 1
            /\ callErr' = "none"
       /\ (callPc # "rejected" /\ callPc' = "rejected") =>
            /\ ~res.headersSent
            /\ res.out = <<>>
            /\ res' = res]_vars

\* The connection broke after a chunk had been written.
C32_Witness ==
    /\ callPc = "retryWait"
    /\ attempts = 1
    /\ res.out = <<<<"chunk">>, <<"error", "broken_body">>>>
    /\ res.ended = 1
    /\ callErr = "none"

\* Positions of the outbound events of one kind.
OutboundOf(kind) == {i \in 1..Len(res.out) : res.out[i][1] = kind}

\* C33: the outbound events of a streaming call are well framed: when a delta
\* was written, one open event was written before the first delta; at most
\* one close event is written, after every delta; and when the call has
\* finished, the deltas are followed by that one close event.
C33_OutboundWellFramed ==
    /\ OutboundOf("chunk") # {} =>
          /\ Cardinality(OutboundOf("open")) = 1
          /\ \A o \in OutboundOf("open"), d \in OutboundOf("chunk") : o < d
    /\ Cardinality(OutboundOf("done")) <= 1
    /\ \A c \in OutboundOf("done"), d \in OutboundOf("chunk") : d < c
    /\ (callPc = "resolved" /\ OutboundOf("chunk") # {}) =>
          Cardinality(OutboundOf("done")) = 1

\* C34: in every reachable state a stored credential implies a stored
\* identity token.
C34_CredentialImpliesIdentityToken ==
    copilotToken # Null => githubToken # NoGithubToken

\* C35: after clearTokens() no operation that was started before it stores a
\* credential or an identity token: a credential is only stored by a
\* refreshCopilotToken() call, and an identity token only by a
\* checkDeviceFlowAuth() call or a device flow, started after the last
\* clearTokens().
C35_LogoutIsDurable ==
    [][/\ (copilotToken' # copilotToken /\ copilotToken' # Null) =>
            \E owner \in refreshing \ preClear : RefreshReturns(owner)
       /\ (githubToken' # githubToken /\ githubToken' # NoGithubToken) =>
            \/ FlowContinues /\ "flowAuth" \notin preClear
            \/ PollStoresToken /\ "pollAuth" \notin preClear]_vars

\* C36: in a streaming call nothing is written to the response after it was
\* ended, and it is ended at most once.
C36_NoWriteAfterEnd ==
    res.late = 0 /\ res.ended <= 1

\* C37: every initiateDeviceFlow() call eventually settles: when the provider
\* answers the flow, the promise the call returned is eventually resolved or
\* rejected.
C37_FlowEventuallySettles ==
    (flowPromise = "pending") ~> (flowPromise \in {"resolved", "rejected"})

\* C38: when the refreshCopilotToken() awaited by checkDeviceFlowAuth()
\* returns, the call settles with true or with the error, never with false;
\* when it settles with the error, the identity token, the credential and the
\* pending verification are as they were, and the identity token the call
\* stored is still stored unless clearTokens() ran since.
C38_FailedExchangeFailsThePoll ==
    [][(pollPc = "awaitRefresh" /\ RefreshReturns("poll")) =>
        /\ pollPc' = "idle"
        /\ pollResult' \in {"true", "threw"}
        /\ pollResult' = "threw" =>
              /\ authVars' = authVars
              /\ "poll" \notin preClear => githubToken' # NoGithubToken]_vars

\* The exchange of a poll failed, and a later refreshCopilotToken() call
\* obtained the first credential with the identity token the poll had stored.
C38_Witness ==
    /\ pollAnswer = "token"
    /\ pollResult = "threw"
    /\ pollPc = "idle"
    /\ githubToken # NoGithubToken
    /\ directResult = "ok"
    /\ Len(yields) = 1
    /\ copilotToken = issued
    /\ copilotToken # Null
    /\ flowPc = "polling"
    /\ preClear = {}

====
